---- MODULE Spec2Model ----
(***************************************************************************)
(* Model of quartic's chord module (src/src/chord.rs): NoteClass,          *)
(* PitchClass, Note::get_relative, the ChordStructure builder, the         *)
(* NoteIterator of Chord::iter and the chained iterator of PolyChord::iter.*)
(***************************************************************************)
EXTENDS Integers, Sequences, FiniteSets, TLC

VARIABLES
    checks,     \* build profile: TRUE = overflow checks on (debug), FALSE = wrapping (release)
    note,       \* SpecNote: the receiver of get_relative
    comp,       \* SpecNote: the ChordComponent argument of get_relative
    res,        \* SpecNote: outcome of the call, or Pending before it
    structs,    \* SpecStructure: the two ChordStructure values being built
    before,     \* SpecStructure: structs as they were before the last operation
    ctor,       \* SpecStructure: which constructor made each structure
    lastOp,     \* SpecStructure: the last builder operation and its receiver
    chord,      \* SpecIter: the Chord being iterated
    state,      \* SpecIter: NoteIterator.state
    out,        \* SpecIter: the notes next() has returned so far
    ret,        \* SpecIter: what the last call of next() did
    calls,      \* SpecIter: number of next() calls made
    poly,       \* SpecPoly: the PolyChord
    chain,      \* SpecPoly: the Chain of the two NoteIterators
    pout,       \* SpecPoly: the notes the chain has returned so far
    pret        \* SpecPoly: what the last call of the chain's next() did

vars == <<checks, note, comp, res, structs, before, ctor, lastOp,
          chord, state, out, ret, calls, poly, chain, pout, pret>>

noteVars == <<note, comp, res>>
structVars == <<structs, before, ctor, lastOp>>
iterVars == <<chord, state, out, ret, calls>>
polyVars == <<poly, chain, pout, pret>>

Idle == "idle"

-----------------------------------------------------------------------------
(* Option<T> and call outcomes *)

None == <<>>
Some(x) == <<x>>
is_some(o) == o /= None
unwrap_val(o) == o[1]

\* A call either returns a value or panics (unwrap on None, arithmetic
\* overflow with overflow checks on, index out of bounds).
Return(v) == [kind |-> "return", val |-> v]
Panic(why) == [kind |-> "panic", why |-> why]
Pending == [kind |-> "pending"]

-----------------------------------------------------------------------------
(* PitchOffset = i8 *)

I8_MIN == -128
I8_MAX == 127

InI8(x) == I8_MIN <= x /\ x <= I8_MAX

\* two's-complement wrap of an integer into i8
wrap_i8(x) == ((x - I8_MIN) % 256) + I8_MIN

\* `a + b` on i8: panics on overflow when overflow checks are on, wraps otherwise
i8_add(a, b, chk) ==
    IF InI8(a + b) THEN Return(a + b)
    ELSE IF chk THEN Panic("overflow")
    ELSE Return(wrap_i8(a + b))

\* `a - b` on i8, same overflow rule
i8_sub(a, b, chk) ==
    IF InI8(a - b) THEN Return(a - b)
    ELSE IF chk THEN Panic("overflow")
    ELSE Return(wrap_i8(a - b))

\* `x as i8` for a usize x (truncating cast, never panics)
as_i8(x) == wrap_i8(x)

-----------------------------------------------------------------------------
(* NoteClass *)

NOTE_CLASS_COUNT == 7

NoteClasses == {"A", "B", "C", "D", "E", "F", "G"}

NoteClass_from_int(input) ==
    CASE input = 0 -> Some("A")
      [] input = 1 -> Some("B")
      [] input = 2 -> Some("C")
      [] input = 3 -> Some("D")
      [] input = 4 -> Some("E")
      [] input = 5 -> Some("F")
      [] input = 6 -> Some("G")
      [] OTHER -> None

NoteClass_to_int(self) ==
    CASE self = "A" -> 0
      [] self = "B" -> 1
      [] self = "C" -> 2
      [] self = "D" -> 3
      [] self = "E" -> 4
      [] self = "F" -> 5
      [] self = "G" -> 6

OFFSETS == <<0, 2, 3, 5, 7, 8, 10>>

\* faulty variant: the operands of the subtraction swapped
NoteClass_difference_swapped(self, other) ==
    LET upper == OFFSETS[NoteClass_to_int(self) + 1] + 12
        lower == OFFSETS[NoteClass_to_int(other) + 1]
    IN  (upper - lower) % 12

NoteClass_difference(self, other) ==
    LET upper == OFFSETS[NoteClass_to_int(other) + 1] + 12
        lower == OFFSETS[NoteClass_to_int(self) + 1]
    IN  (upper - lower) % 12

-----------------------------------------------------------------------------
(* PitchClass *)

PITCH_CLASS_COUNT == 10

PitchClasses == {"N1", "N2", "N3", "N4", "N5", "N6", "N7", "N9", "N11", "N13"}

PitchClass_from_int(input) ==
    CASE input = 0 -> Some("N1")
      [] input = 1 -> Some("N2")
      [] input = 2 -> Some("N3")
      [] input = 3 -> Some("N4")
      [] input = 4 -> Some("N5")
      [] input = 5 -> Some("N6")
      [] input = 6 -> Some("N7")
      [] input = 7 -> Some("N9")
      [] input = 8 -> Some("N11")
      [] input = 9 -> Some("N13")
      [] OTHER -> None

PitchClass_index(self) ==
    CASE self = "N1" -> 0
      [] self = "N2" -> 1
      [] self = "N3" -> 2
      [] self = "N4" -> 3
      [] self = "N5" -> 4
      [] self = "N6" -> 5
      [] self = "N7" -> 6
      [] self = "N9" -> 7
      [] self = "N11" -> 8
      [] self = "N13" -> 9

PitchClass_to_int(self) ==
    CASE self = "N1" -> 0
      [] self \in {"N2", "N9"} -> 1
      [] self = "N3" -> 2
      [] self \in {"N4", "N11"} -> 3
      [] self = "N5" -> 4
      [] self \in {"N6", "N13"} -> 5
      [] self = "N7" -> 6

\* faulty variant: compound degrees given the semitone distance of the simple degree
PitchClass_to_relative_difference_simple(self) ==
    CASE self = "N1" -> 0
      [] self \in {"N2", "N9"} -> 2
      [] self = "N3" -> 4
      [] self \in {"N4", "N11"} -> 5
      [] self = "N5" -> 7
      [] self \in {"N6", "N13"} -> 9
      [] self = "N7" -> 11

PitchClass_to_relative_difference(self) ==
    CASE self = "N1" -> 0
      [] self = "N2" -> 2
      [] self = "N3" -> 4
      [] self = "N4" -> 5
      [] self = "N5" -> 7
      [] self = "N6" -> 9
      [] self = "N7" -> 11
      [] self = "N9" -> 14
      [] self = "N11" -> 17
      [] self = "N13" -> 21

-----------------------------------------------------------------------------
(* Note *)

Note_new(root, offset) == [root |-> root, offset |-> offset]

\* faulty variant: the explicit offset of the component is dropped
Note_get_relative_no_explicit(self, component, chk) ==
    LET class == component[1]
        root_val == (NoteClass_to_int(self.root) + PitchClass_to_int(class))
                        % NOTE_CLASS_COUNT
        root_opt == NoteClass_from_int(root_val)
    IN  IF ~is_some(root_opt) THEN Panic("unwrap")
        ELSE
        LET root_note == unwrap_val(root_opt)
            rel == i8_sub(as_i8(PitchClass_to_relative_difference(class)),
                          as_i8(NoteClass_difference(self.root, root_note)), chk)
        IN  IF rel.kind = "panic" THEN rel
            ELSE
            LET s2 == i8_add(self.offset, rel.val, chk)
            IN  IF s2.kind = "panic" THEN s2
                ELSE Return(Note_new(root_note, s2.val))

\* Note::get_relative.  `self.offset + offset + rel_offset` is evaluated left
\* to right on i8.
Note_get_relative(self, component, chk) ==
    LET class == component[1]
        offset == component[2]
        root_val == (NoteClass_to_int(self.root) + PitchClass_to_int(class))
                        % NOTE_CLASS_COUNT
        root_opt == NoteClass_from_int(root_val)
    IN  IF ~is_some(root_opt) THEN Panic("unwrap")
        ELSE
        LET root_note == unwrap_val(root_opt)
            rel == i8_sub(as_i8(PitchClass_to_relative_difference(class)),
                          as_i8(NoteClass_difference(self.root, root_note)), chk)
        IN  IF rel.kind = "panic" THEN rel
            ELSE
            LET s1 == i8_add(self.offset, offset, chk)
            IN  IF s1.kind = "panic" THEN s1
                ELSE
                LET s2 == i8_add(s1.val, rel.val, chk)
                IN  IF s2.kind = "panic" THEN s2
                    ELSE Return(Note_new(root_note, s2.val))

-----------------------------------------------------------------------------
(* SpecNote: Note::get_relative applied to bounded inputs *)

MaxAcc == 2
MaxEdge == 1

\* accidental counts tried: small ones and the ones next to the i8 limits
Accs == (-MaxAcc .. MaxAcc) \cup (I8_MIN .. I8_MIN + MaxEdge)
            \cup (I8_MAX - MaxEdge .. I8_MAX)

InitNote ==
    /\ checks \in BOOLEAN
    /\ note \in {Note_new(l, a) : l \in NoteClasses, a \in Accs}
    /\ comp \in PitchClasses \X Accs
    /\ res = Pending
    /\ structs = Idle /\ before = Idle /\ ctor = Idle /\ lastOp = Idle
    /\ chord = Idle /\ state = Idle /\ out = Idle /\ ret = Idle /\ calls = Idle
    /\ poly = Idle /\ chain = Idle /\ pout = Idle /\ pret = Idle

GetRelative ==
    /\ res = Pending
    /\ res' = Note_get_relative(note, comp, checks)
    /\ UNCHANGED <<checks, note, comp, structVars, iterVars, polyVars>>

NextNote == GetRelative

SpecNote == InitNote /\ [][NextNote]_vars

-----------------------------------------------------------------------------
(* Properties of Note::get_relative (SpecNote) *)

Called == res /= Pending
Returned == res.kind = "return"

Letter == note.root
Acc == note.offset
Degree == comp[1]
Explicit == comp[2]

\* the letter the degree lands on, by ordinal arithmetic
TargetOrdinal == (NoteClass_to_int(Letter) + PitchClass_to_int(Degree)) % 7
TargetLetter == unwrap_val(NoteClass_from_int(TargetOrdinal))

\* ideal - diatonic_gap, as a plain integer
RelOffset ==
    PitchClass_to_relative_difference(Degree) - NoteClass_difference(Letter, TargetLetter)

\* every i8 sum of the call stays within -128..127
NoOverflow == InI8(Acc + Explicit) /\ InI8(Acc + Explicit + RelOffset)

Example(l, a, d, o, rl, ra) ==
    (Called /\ note = Note_new(l, a) /\ comp = <<d, o>>)
        => res = Return(Note_new(rl, ra))

\* C1: get_relative returns the note whose letter is
\* from_int((L.to_int() + d.to_int()) mod 7) and whose accidental count is the
\* PitchOffset (i8) sum a + o + (d.to_relative_difference() - L.difference(letter));
\* it returns whenever no i8 sum overflows, and the five examples of
\* tests::offset_calculation come out as written.
C1_GetRelativeFormula ==
    /\ (Called /\ NoOverflow) => Returned
    /\ Returned =>
        /\ res.val.root = TargetLetter
        /\ res.val.offset = wrap_i8(Acc + Explicit + RelOffset)
        /\ NoOverflow => res.val.offset = Acc + Explicit + RelOffset
    /\ Example("A", 0, "N5", 0, "E", 0)
    /\ Example("A", 0, "N5", -1, "E", -1)
    /\ Example("F", -1, "N2", -2, "G", -3)
    /\ Example("D", 0, "N3", 0, "F", 1)
    /\ Example("A", 0, "N3", 0, "C", 1)

C1_Witness ==
    /\ note = Note_new("F", -1) /\ comp = <<"N2", -2>>
    /\ res = Return(Note_new("G", -3))

\* semitones from the root up to the returned note, as a plain integer
Distance == res.val.offset - Acc + NoteClass_difference(Letter, res.val.root)
Ideal == PitchClass_to_relative_difference(Degree)

\* C2 (as claimed): for every root and component with i8 accidental counts the
\* call returns, without overflow or failure, a note exactly
\* ideal + explicit_offset semitones above the root.
C2_AlwaysExactDistance ==
    Called => (Returned /\ Distance = Ideal + Explicit)

\* C2 (amended): whenever root.offset + explicit_offset and
\* root.offset + explicit_offset + (ideal - diatonic_gap) both lie in
\* -128..127, the call returns a note exactly ideal + explicit_offset
\* semitones above the root.
C2_ExactDistanceWithoutOverflow ==
    (Called /\ NoOverflow) => (Returned /\ Distance = Ideal + Explicit)

C2_Witness ==
    /\ Returned /\ NoOverflow
    /\ note = Note_new("F", I8_MIN + 1) /\ comp = <<"N4", 2>>
    /\ Distance = 7

\* the simple degree a compound degree shares its letter with
SimpleOf(d) ==
    CASE d = "N9" -> "N2"
      [] d = "N11" -> "N4"
      [] d = "N13" -> "N6"

\* the same call with the simple degree in place of the compound one
SimpleRes == Note_get_relative(note, <<SimpleOf(Degree), Explicit>>, checks)
SimpleGap == NoteClass_difference(Letter, TargetLetter)
SimpleNoOverflow ==
    /\ InI8(Acc + Explicit)
    /\ InI8(Acc + Explicit
            + PitchClass_to_relative_difference(SimpleOf(Degree)) - SimpleGap)

\* C10: with no i8 sum out of range, a compound degree (9th, 11th, 13th)
\* resolves to the letter of its simple degree (2nd, 4th, 6th) with an
\* accidental count exactly 12 greater; the 9th above A natural is B with
\* 12 sharps.
C10_CompoundTwelveSharper ==
    /\ (Returned /\ Degree \in {"N9", "N11", "N13"} /\ NoOverflow /\ SimpleNoOverflow)
        => /\ SimpleRes.kind = "return"
           /\ res.val.root = SimpleRes.val.root
           /\ res.val.offset = SimpleRes.val.offset + 12
    /\ Example("A", 0, "N9", 0, "B", 12)

C10_Witness ==
    /\ note = Note_new("C", 1) /\ comp = <<"N13", -1>>
    /\ Returned /\ NoOverflow /\ SimpleNoOverflow
    /\ res.val = Note_new("A", 12)

-----------------------------------------------------------------------------
(* ChordStructure: [Option<PitchOffset>; PITCH_CLASS_COUNT], indexed from 0 *)

Slots == 0 .. PITCH_CLASS_COUNT - 1

\* faulty variant: no unison slot, as the derived Default gives
ChordStructure_new_all_absent == [i \in Slots |-> None]

ChordStructure_new ==
    LET classes == [i \in Slots |-> None]
    IN  [classes EXCEPT ![PitchClass_index("N1")] = Some(0)]

ChordStructure_from_component(component) ==
    LET classes == [i \in Slots |-> None]
    IN  [classes EXCEPT ![PitchClass_index(component[1])] = Some(component[2])]

ChordStructure_insert(self, component) ==
    [self EXCEPT ![PitchClass_index(component[1])] = Some(component[2])]

\* `for &component in components { self.0[..] = Some(..) }`, in slice order
RECURSIVE ChordStructure_insert_many(_, _)
ChordStructure_insert_many(self, components) ==
    IF components = <<>> THEN self
    ELSE ChordStructure_insert_many(
            [self EXCEPT ![PitchClass_index(Head(components)[1])]
                            = Some(Head(components)[2])],
            Tail(components))

\* the loop of merge from index i on
RECURSIVE merge_loop(_, _, _)
merge_loop(self, other, i) ==
    IF i >= PITCH_CLASS_COUNT THEN self
    ELSE IF is_some(other[i])
         THEN merge_loop([self EXCEPT ![i] = other[i]], other, i + 1)
         ELSE merge_loop(self, other, i + 1)

\* faulty variant: preference for the elements of self (only empty slots are filled)
ChordStructure_merge_left_biased(self, other) ==
    [i \in Slots |-> IF is_some(self[i]) THEN self[i] ELSE other[i]]

\* faulty variant: the is_some() test is missing, every slot is overwritten
ChordStructure_merge_overwrite_all(self, other) ==
    [i \in Slots |-> other[i]]

ChordStructure_merge(self, other) == merge_loop(self, other, 0)

-----------------------------------------------------------------------------
(* SpecStructure: two ChordStructures built with the public operations *)

MaxMany == 2

\* the degrees inserted: the unison (the slot new() fills) and the third
StructDegrees == {"N1", "N3"}

\* accidentals given to a degree: natural, sharp
StructOffsets == {0, 1}

StructComps == StructDegrees \X StructOffsets

\* the slices handed to insert_many
RECURSIVE SeqsUpTo(_, _)
SeqsUpTo(S, n) ==
    IF n = 0 THEN {<<>>}
    ELSE LET shorter == SeqsUpTo(S, n - 1)
         IN  shorter \cup {Append(q, x) : q \in shorter, x \in S}

Ids == {1, 2}
OtherOf(k) == 3 - k

InitStructure ==
    /\ checks = FALSE
    /\ ctor \in [Ids -> {"new", "from_component"}]
    /\ structs \in [Ids -> {ChordStructure_new}
                        \cup {ChordStructure_from_component(c) : c \in StructComps}]
    /\ \A k \in Ids :
        IF ctor[k] = "new" THEN structs[k] = ChordStructure_new
        ELSE \E c \in StructComps : structs[k] = ChordStructure_from_component(c)
    /\ before = structs
    /\ lastOp = [op |-> "construct", k |-> 0]
    /\ note = Idle /\ comp = Idle /\ res = Idle
    /\ chord = Idle /\ state = Idle /\ out = Idle /\ ret = Idle /\ calls = Idle
    /\ poly = Idle /\ chain = Idle /\ pout = Idle /\ pret = Idle

Insert(k, c) ==
    /\ structs' = [structs EXCEPT ![k] = ChordStructure_insert(structs[k], c)]
    /\ before' = structs
    /\ lastOp' = [op |-> "insert", k |-> k]
    /\ UNCHANGED <<checks, ctor, noteVars, iterVars, polyVars>>

InsertMany(k, cs) ==
    /\ structs' = [structs EXCEPT ![k] = ChordStructure_insert_many(structs[k], cs)]
    /\ before' = structs
    /\ lastOp' = [op |-> "insert_many", k |-> k]
    /\ UNCHANGED <<checks, ctor, noteVars, iterVars, polyVars>>

\* structs[k] = structs[k].merge(&structs[other])
Merge(k) ==
    /\ structs' = [structs EXCEPT
                    ![k] = ChordStructure_merge(structs[k], structs[OtherOf(k)])]
    /\ before' = structs
    /\ lastOp' = [op |-> "merge", k |-> k]
    /\ UNCHANGED <<checks, ctor, noteVars, iterVars, polyVars>>

NextStructure ==
    \/ \E k \in Ids, c \in StructComps : Insert(k, c)
    \/ \E k \in Ids, cs \in SeqsUpTo(StructComps, MaxMany) : InsertMany(k, cs)
    \/ \E k \in Ids : Merge(k)

SpecStructure == InitStructure /\ [][NextStructure]_vars

-----------------------------------------------------------------------------
(* Properties of the ChordStructure builder (SpecStructure) *)

Unison == PitchClass_index("N1")

\* no slot present before the last operation is absent after it
NoSlotRemoved ==
    \A k \in Ids : \A i \in Slots : is_some(before[k][i]) => is_some(structs[k][i])

\* C6 (as claimed): every structure made by new or from_component and then
\* any insert, insert_many and merge has its unison slot present, and no
\* operation turns a present slot into an absent one.
C6_UnisonAlwaysPresent ==
    /\ \A k \in Ids : is_some(structs[k][Unison])
    /\ NoSlotRemoved

\* C6 (amended): every structure made by ChordStructure::new and then any
\* insert, insert_many and merge has its unison slot present; for structures
\* from either constructor, no operation turns a present slot into an absent
\* one.
C6_UnisonPresentAfterNew ==
    /\ \A k \in Ids : ctor[k] = "new" => is_some(structs[k][Unison])
    /\ NoSlotRemoved

C6_Witness ==
    /\ ctor[1] = "new" /\ ctor[2] = "from_component"
    /\ lastOp = [op |-> "merge", k |-> 1]
    /\ ~is_some(before[2][Unison])
    /\ before[1][Unison] = Some(1)
    /\ structs[1][Unison] = Some(1)
    /\ is_some(structs[1][PitchClass_index("N3")])

\* C7: merge is right-biased and touches nothing else: after
\* s.merge(&o), slot i holds o[i] where o[i] is present and the old s[i]
\* (present or absent) where it is not, and o is unchanged.
C7_MergeRightBiased ==
    lastOp.op = "merge" =>
        LET k == lastOp.k
            o == OtherOf(lastOp.k)
        IN  /\ \A i \in Slots :
                structs[k][i] = IF before[o][i] /= None THEN before[o][i]
                                ELSE before[k][i]
            /\ structs[o] = before[o]

C7_Witness ==
    /\ lastOp = [op |-> "merge", k |-> 2]
    /\ before[2][Unison] = Some(0) /\ before[1][Unison] = Some(1)
    /\ before[2][PitchClass_index("N3")] = Some(1)
    /\ before[1][PitchClass_index("N3")] = None
    /\ structs[2][Unison] = Some(1)
    /\ structs[2][PitchClass_index("N3")] = Some(1)

BothFromNew == \A k \in Ids : ctor[k] = "new"

\* the result of the last merge, merged again with ChordStructure::new()
Remerged == ChordStructure_merge(structs[lastOp.k], ChordStructure_new)

\* C8 (as claimed): for structures built from new by insert, insert_many and
\* merge, merge(merge(a, b), ChordStructure::new()) equals merge(a, b) in
\* every slot.
C8_RemergeWithNewIsNoOp ==
    (lastOp.op = "merge" /\ BothFromNew) => Remerged = structs[lastOp.k]

\* C8 (amended): merge(merge(a, b), ChordStructure::new()) equals
\* merge(a, b) in every slot but the unison, which it sets to offset 0; it is
\* a no-op exactly when merge(a, b) has its unison at offset 0.
C8_RemergeWithNewResetsUnison ==
    (lastOp.op = "merge" /\ BothFromNew) =>
        /\ \A i \in Slots \ {Unison} : Remerged[i] = structs[lastOp.k][i]
        /\ Remerged[Unison] = Some(0)
        /\ (Remerged = structs[lastOp.k]) <=> (structs[lastOp.k][Unison] = Some(0))

C8_Witness ==
    /\ lastOp.op = "merge" /\ BothFromNew
    /\ structs[lastOp.k][Unison] = Some(1)
    /\ structs[lastOp.k][PitchClass_index("N3")] = Some(1)
    /\ Remerged[Unison] = Some(0)
    /\ Remerged[PitchClass_index("N3")] = Some(1)

-----------------------------------------------------------------------------
(* Chord and NoteIterator *)

Chord_new(root, structure) ==
    [slash_root |-> None, root |-> root, structure |-> structure]

Chord_new_slash(slash_root, root, structure) ==
    [slash_root |-> Some(slash_root), root |-> root, structure |-> structure]

\* NoteIteratorState
Slash == [tag |-> "Slash"]
Structure(i) == [tag |-> "Structure", i |-> i]
Exhausted == [tag |-> "Exhausted"]

\* what one call of next() leaves behind: the new state and the outcome
Step(st, r) == [state |-> st, ret |-> r]

\* faulty variant: the loop runs while i <= PITCH_CLASS_COUNT
RECURSIVE structure_scan_off_by_one(_, _, _)
structure_scan_off_by_one(c, i, chk) ==
    IF i <= PITCH_CLASS_COUNT THEN
        IF i \notin Slots THEN Step(Structure(i), Panic("index"))
        ELSE IF is_some(c.structure[i]) THEN
            LET pc == PitchClass_from_int(i)
            IN  IF ~is_some(pc) THEN Step(Structure(i), Panic("unwrap"))
                ELSE LET r == Note_get_relative(c.root,
                                    <<unwrap_val(pc), unwrap_val(c.structure[i])>>, chk)
                     IN  IF r.kind = "panic" THEN Step(Structure(i + 1), r)
                         ELSE Step(Structure(i + 1), Return(Some(r.val)))
        ELSE structure_scan_off_by_one(c, i + 1, chk)
    ELSE Step(Exhausted, Return(None))

\* the Structure(ii) arm of next(): `while i < PITCH_CLASS_COUNT { .. }`
RECURSIVE structure_scan(_, _, _)
structure_scan(c, i, chk) ==
    IF i < PITCH_CLASS_COUNT THEN
        IF i \notin Slots THEN Step(Structure(i), Panic("index"))
        ELSE IF is_some(c.structure[i]) THEN
            LET pc == PitchClass_from_int(i)
            IN  IF ~is_some(pc) THEN Step(Structure(i), Panic("unwrap"))
                ELSE LET r == Note_get_relative(c.root,
                                    <<unwrap_val(pc), unwrap_val(c.structure[i])>>, chk)
                     IN  IF r.kind = "panic" THEN Step(Structure(i + 1), r)
                         ELSE Step(Structure(i + 1), Return(Some(r.val)))
        ELSE structure_scan(c, i + 1, chk)
    ELSE Step(Exhausted, Return(None))

\* faulty variant: without a slash note the scan resumes one slot too far
NoteIterator_next_skip_first(c, st, chk) ==
    CASE st.tag = "Slash" ->
            IF is_some(c.slash_root)
            THEN Step(Structure(0), Return(c.slash_root))
            ELSE structure_scan(c, 1, chk)
      [] st.tag = "Structure" -> structure_scan(c, st.i, chk)
      [] st.tag = "Exhausted" -> Step(st, Return(None))

\* NoteIterator::next; `continue 'retry` re-enters the match in Structure(0)
NoteIterator_next(c, st, chk) ==
    CASE st.tag = "Slash" ->
            IF is_some(c.slash_root)
            THEN Step(Structure(0), Return(c.slash_root))
            ELSE structure_scan(c, 0, chk)
      [] st.tag = "Structure" -> structure_scan(c, st.i, chk)
      [] st.tag = "Exhausted" -> Step(st, Return(None))

\* Chord::iter
Chord_iter == Slash

-----------------------------------------------------------------------------
(* SpecIter: one NoteIterator driven by repeated calls of next() *)

MaxPresent == 2
MaxNone == 2

\* offsets of the slots of an iterated structure: flat, natural, sharp
IterOffsets == {-1, 0, 1}

\* structures with at most n slots present
SparseStructures(n) ==
    UNION {{[i \in Slots |-> IF i \in P THEN Some(g[i]) ELSE None] :
                g \in [P -> IterOffsets]} :
            P \in {Q \in SUBSET Slots : Cardinality(Q) <= n}}

\* every degree present and unaltered
AllNatural == [i \in Slots |-> Some(0)]

\* ChordStructure::new().insert_many(&[(N3, 0), (N5, 0)])
MajorTriad == ChordStructure_insert_many(ChordStructure_new, <<<<"N3", 0>>, <<"N5", 0>>>>)

IterStructures == SparseStructures(MaxPresent) \cup {AllNatural, MajorTriad}

\* roots tried, one of them at the i8 limit
IterRoots == {Note_new("A", 0), Note_new("D", 0), Note_new("F", 1), Note_new("A", I8_MAX)}

IterSlashes == {None, Some(Note_new("C", 1))}

IterChords ==
    {[slash_root |-> sl, root |-> r, structure |-> st] :
        sl \in IterSlashes, r \in IterRoots, st \in IterStructures}

InitIter ==
    /\ checks \in BOOLEAN
    /\ chord \in IterChords
    /\ state = Chord_iter
    /\ out = <<>>
    /\ ret = Pending
    /\ calls = 0
    /\ note = Idle /\ comp = Idle /\ res = Idle
    /\ structs = Idle /\ before = Idle /\ ctor = Idle /\ lastOp = Idle
    /\ poly = Idle /\ chain = Idle /\ pout = Idle /\ pret = Idle

\* calls that returned no value so far
NoneCount == calls - Len(out)

\* one call of next(); a panic ends the run
NextCall ==
    /\ ret.kind /= "panic"
    /\ NoneCount < MaxNone
    /\ LET step == NoteIterator_next(chord, state, checks)
       IN  /\ state' = step.state
           /\ ret' = step.ret
           /\ out' = IF step.ret.kind = "return" /\ is_some(step.ret.val)
                     THEN Append(out, unwrap_val(step.ret.val))
                     ELSE out
    /\ calls' = calls + 1
    /\ UNCHANGED <<checks, chord, noteVars, structVars, polyVars>>

NextIter == NextCall

SpecIter == InitIter /\ [][NextIter]_vars

-----------------------------------------------------------------------------
(* Properties of Chord::iter (SpecIter) *)

\* the present slots of a structure below index n, ascending
RECURSIVE PresentBelow(_, _)
PresentBelow(st, n) ==
    IF n = 0 THEN <<>>
    ELSE IF is_some(st[n - 1]) THEN Append(PresentBelow(st, n - 1), n - 1)
         ELSE PresentBelow(st, n - 1)

SlashCount(c) == IF is_some(c.slash_root) THEN 1 ELSE 0

ExpectedLen(c) == SlashCount(c) + Cardinality({i \in Slots : is_some(c.structure[i])})

\* the j-th note the claimed sequence holds
ExpectedAt(c, j, chk) ==
    IF j <= SlashCount(c) THEN unwrap_val(c.slash_root)
    ELSE LET slot == PresentBelow(c.structure, PITCH_CLASS_COUNT)[j - SlashCount(c)]
         IN  Note_get_relative(c.root,
                <<unwrap_val(PitchClass_from_int(slot)), unwrap_val(c.structure[slot])>>,
                chk).val

IterDone == ret = Return(None)

\* C3: Chord::iter yields the slash note first if there is one, then, for
\* each present slot in ascending ordinal order, root.get_relative((degree,
\* slot offset)), and nothing for absent slots: what has been yielded is
\* always a prefix of that sequence and is all of it once next() returns no
\* value; slash C# over A with {unison, 3rd, 5th} yields [C#, A, C#, E].
C3_IterSequence ==
    /\ Len(out) <= ExpectedLen(chord)
    /\ \A j \in 1 .. Len(out) : out[j] = ExpectedAt(chord, j, checks)
    /\ IterDone => Len(out) = ExpectedLen(chord)
    /\ (IterDone /\ chord = Chord_new_slash(Note_new("C", 1), Note_new("A", 0), MajorTriad))
        => out = <<Note_new("C", 1), Note_new("A", 0), Note_new("C", 1), Note_new("E", 0)>>

C3_Witness ==
    /\ IterDone
    /\ chord = Chord_new_slash(Note_new("C", 1), Note_new("A", 0), MajorTriad)
    /\ out = <<Note_new("C", 1), Note_new("A", 0), Note_new("C", 1), Note_new("E", 0)>>

\* the slots whose notes have been yielded so far
Cursor ==
    CASE state.tag = "Slash" -> 0
      [] state.tag = "Structure" -> state.i
      [] state.tag = "Exhausted" -> PITCH_CLASS_COUNT
YieldedSlots == {i \in Slots : i < Cursor /\ is_some(chord.structure[i])}

\* pitch height of slot i above the root: natural distance plus the slot's offset
SlotHeight(i) ==
    PitchClass_to_relative_difference(unwrap_val(PitchClass_from_int(i)))
        + unwrap_val(chord.structure[i])

\* C5: along the structural notes yielded by Chord::iter the pitch height
\* above the root never decreases.
C5_LowestToHighest ==
    ret.kind /= "panic" =>
        \A i \in YieldedSlots : \A j \in YieldedSlots :
            i < j => SlotHeight(i) <= SlotHeight(j)

\* position of the cursor in Slash -> Structure(0..10) -> Exhausted
Rank(st) ==
    CASE st.tag = "Slash" -> 0
      [] st.tag = "Structure" -> 1 + st.i
      [] st.tag = "Exhausted" -> PITCH_CLASS_COUNT + 2

Yielded(r) == r.kind = "return" /\ is_some(r.val)

\* C9: the cursor only moves forward, strictly when a note is yielded, with
\* Structure(i) kept within 0..10; at most 11 notes are yielded; the only
\* panic next() can raise is the i8 overflow inside get_relative, never the
\* unwrap of PitchClass::from_int nor an index out of bounds; and after a call
\* returned no value every later call returns no value.
C9_ForwardOnly ==
    [][ /\ Rank(state') >= Rank(state)
        /\ Yielded(ret') => Rank(state') > Rank(state)
        /\ state'.tag = "Structure" => state'.i \in 0 .. PITCH_CLASS_COUNT
        /\ Len(out') <= 1 + PITCH_CLASS_COUNT
        /\ ret'.kind = "panic" => ret'.why = "overflow"
        /\ ret = Return(None) => (ret' = Return(None) /\ out' = out)
        /\ state.tag = "Exhausted" => state'.tag = "Exhausted"
      ]_vars

C9_Witness ==
    /\ state = Exhausted
    /\ Len(out) = 1 + PITCH_CLASS_COUNT
    /\ ret = Return(None)
    /\ calls = Len(out) + 2

-----------------------------------------------------------------------------
(* PolyChord and the Chain of its two NoteIterators *)

PolyChord_new(upper, lower) == [upper |-> upper, lower |-> lower]

\* NoteIterator { chord, state }
NoteIterator(c, st) == [chord |-> c, state |-> st]

\* faulty variant: the upper chord is chained first
PolyChord_iter_upper_first(self) ==
    [a |-> Some(NoteIterator(self.upper, Chord_iter)),
     b |-> Some(NoteIterator(self.lower, Chord_iter))]

\* self.lower.iter().chain(self.upper.iter())
PolyChord_iter(self) ==
    [a |-> Some(NoteIterator(self.lower, Chord_iter)),
     b |-> Some(NoteIterator(self.upper, Chord_iter))]

\* next() of the second iterator of the chain
Chain_next_b(ch, chk) ==
    IF is_some(ch.b)
    THEN LET it == unwrap_val(ch.b)
             step == NoteIterator_next(it.chord, it.state, chk)
         IN  [chain |-> [ch EXCEPT !.b = Some(NoteIterator(it.chord, step.state))],
              ret |-> step.ret]
    ELSE [chain |-> ch, ret |-> Return(None)]

\* Chain::next: the first iterator until it returns no value (it is then
\* dropped), the second one from then on
Chain_next(ch, chk) ==
    IF is_some(ch.a)
    THEN LET it == unwrap_val(ch.a)
             step == NoteIterator_next(it.chord, it.state, chk)
         IN  IF step.ret.kind = "panic" \/ is_some(step.ret.val)
             THEN [chain |-> [ch EXCEPT !.a = Some(NoteIterator(it.chord, step.state))],
                   ret |-> step.ret]
             ELSE Chain_next_b([ch EXCEPT !.a = None], chk)
    ELSE Chain_next_b(ch, chk)

-----------------------------------------------------------------------------
(* SpecPoly: PolyChord::iter driven by repeated calls of next() *)

Triads ==
    {ChordStructure_insert_many(ChordStructure_new, <<<<"N3", a>>, <<"N5", b>>>>) :
        a \in IterOffsets, b \in IterOffsets}

PolyStructures ==
    Triads \cup {ChordStructure_new, ChordStructure_from_component(<<"N7", 0>>), AllNatural}

PolyRoots == {Note_new("B", 0), Note_new("F", 1), Note_new("A", I8_MAX)}

PolyChordsOf ==
    {[slash_root |-> sl, root |-> r, structure |-> st] :
        sl \in IterSlashes, r \in PolyRoots, st \in PolyStructures}

InitPoly ==
    /\ checks \in BOOLEAN
    /\ poly \in {PolyChord_new(u, l) : u \in PolyChordsOf, l \in PolyChordsOf}
    /\ chain = PolyChord_iter(poly)
    /\ pout = <<>>
    /\ pret = Pending
    /\ note = Idle /\ comp = Idle /\ res = Idle
    /\ structs = Idle /\ before = Idle /\ ctor = Idle /\ lastOp = Idle
    /\ chord = Idle /\ state = Idle /\ out = Idle /\ ret = Idle /\ calls = Idle

\* one call of next() on the chain; a panic ends the run, and the run stops
\* at the first call that returns no value
PolyNextCall ==
    /\ pret.kind \in {"pending", "return"}
    /\ pret /= Return(None)
    /\ LET step == Chain_next(chain, checks)
       IN  /\ chain' = step.chain
           /\ pret' = step.ret
           /\ pout' = IF step.ret.kind = "return" /\ is_some(step.ret.val)
                      THEN Append(pout, unwrap_val(step.ret.val))
                      ELSE pout
    /\ UNCHANGED <<checks, poly, noteVars, structVars, iterVars>>

NextPoly == PolyNextCall

SpecPoly == InitPoly /\ [][NextPoly]_vars

-----------------------------------------------------------------------------
(* Properties of PolyChord::iter (SpecPoly) *)

\* the notes a fresh Chord::iter of c returns, collected until it returns no
\* value (or panics)
RECURSIVE Collect(_, _, _)
Collect(c, st, chk) ==
    LET step == NoteIterator_next(c, st, chk)
    IN  IF step.ret.kind = "return" /\ is_some(step.ret.val)
        THEN <<unwrap_val(step.ret.val)>> \o Collect(c, step.state, chk)
        ELSE <<>>

LowerSeq == Collect(poly.lower, Chord_iter, checks)
UpperSeq == Collect(poly.upper, Chord_iter, checks)

IsPrefix(p, q) == Len(p) <= Len(q) /\ \A j \in 1 .. Len(p) : p[j] = q[j]

\* F#(#5) over Bm
TestPoly ==
    PolyChord_new(
        Chord_new(Note_new("F", 1),
            ChordStructure_insert_many(ChordStructure_new, <<<<"N3", 0>>, <<"N5", 1>>>>)),
        Chord_new(Note_new("B", 0),
            ChordStructure_insert_many(ChordStructure_new, <<<<"N3", -1>>, <<"N5", 0>>>>)))

TestPolyNotes ==
    <<Note_new("B", 0), Note_new("D", 0), Note_new("F", 1),
      Note_new("F", 1), Note_new("A", 1), Note_new("C", 2)>>

\* C4: PolyChord::iter yields the whole Chord::iter sequence of the lower
\* chord and then the whole Chord::iter sequence of the upper chord, nothing
\* interleaved, reordered, dropped or merged: what has been yielded is always
\* a prefix of lower ++ upper and is all of it once next() returns no value;
\* F#(#5) over Bm yields [B, D, F#, F#, A#, C##].
C4_PolyConcatenation ==
    /\ IsPrefix(pout, LowerSeq \o UpperSeq)
    /\ pret = Return(None) => pout = LowerSeq \o UpperSeq
    /\ (pret = Return(None) /\ poly = TestPoly) => pout = TestPolyNotes

C4_Witness ==
    /\ pret = Return(None)
    /\ poly = TestPoly
    /\ pout = TestPolyNotes

====
